---- MODULE Spec2Model ----
(***************************************************************************)
(* Model of the ONT Login server SDK (package sdk, sdk.go): the challenge  *)
(* issuer GenerateChallenge, the response validator                        *)
(* ValidateClientResponse, and the parsers GetDIDChain and                 *)
(* getDIDKeyAndIndex.                                                      *)
(*                                                                         *)
(* Go strings are modelled as sequences of one-character strings, so that  *)
(* strings.Split, strings.EqualFold, strconv.Atoi and hex.DecodeString are *)
(* computed character by character as the library computes them.          *)
(***************************************************************************)
EXTENDS Integers, Sequences, FiniteSets, TLC

(***************************************************************************)
(* Bounds of the model.                                                    *)
(***************************************************************************)
\* Number of nonces the Nonce Authority can mint in one behaviour.
MaxNonces == 2
\* Longest list of presentations a response carries.
MaxVPs == 2
\* Longest parser input, counted in tokens of ParseTokens.
MaxParts == 5

(***************************************************************************)
(* Go standard library functions used by sdk.go.                           *)
(***************************************************************************)
NIL == "nil"

\* unicode.ToLower restricted to ASCII, the folding strings.EqualFold applies.
LowerOf ==
    ("A" :> "a") @@ ("B" :> "b") @@ ("C" :> "c") @@ ("D" :> "d") @@ ("E" :> "e") @@
    ("F" :> "f") @@ ("G" :> "g") @@ ("H" :> "h") @@ ("I" :> "i") @@ ("J" :> "j") @@
    ("K" :> "k") @@ ("L" :> "l") @@ ("M" :> "m") @@ ("N" :> "n") @@ ("O" :> "o") @@
    ("P" :> "p") @@ ("Q" :> "q") @@ ("R" :> "r") @@ ("S" :> "s") @@ ("T" :> "t") @@
    ("U" :> "u") @@ ("V" :> "v") @@ ("W" :> "w") @@ ("X" :> "x") @@ ("Y" :> "y") @@
    ("Z" :> "z")

ToLower(c) == IF c \in DOMAIN LowerOf THEN LowerOf[c] ELSE c

\* strings.EqualFold(s, t): equality under simple case folding.
EqualFold(s, t) ==
    /\ Len(s) = Len(t)
    /\ \A i \in 1..Len(s) : ToLower(s[i]) = ToLower(t[i])

\* strings.Split(s, sep) for a one-character separator: the substrings
\* between the separators, 1 + (number of separators) of them.
RECURSIVE SplitFrom(_, _, _, _)
SplitFrom(s, sep, i, cur) ==
    IF i > Len(s) THEN <<cur>>
    ELSE IF s[i] = sep THEN <<cur>> \o SplitFrom(s, sep, i + 1, <<>>)
    ELSE SplitFrom(s, sep, i + 1, Append(cur, s[i]))

Split(s, sep) == SplitFrom(s, sep, 1, <<>>)

Digits == {"0", "1", "2", "3", "4", "5", "6", "7", "8", "9"}

DigitVal(c) ==
    CASE c = "0" -> 0 [] c = "1" -> 1 [] c = "2" -> 2 [] c = "3" -> 3
      [] c = "4" -> 4 [] c = "5" -> 5 [] c = "6" -> 6 [] c = "7" -> 7
      [] c = "8" -> 8 [] c = "9" -> 9

RECURSIVE DecimalValue(_, _)
DecimalValue(s, n) ==
    IF s = <<>> THEN n ELSE DecimalValue(Tail(s), n * 10 + DigitVal(Head(s)))

\* strconv.Atoi(s) on its fast path (inputs shorter than 19 characters, which
\* every input of this model is): an optional sign, then one or more decimal
\* digits; anything else is a syntax error and the value returned is 0.
Atoi(s) ==
    LET signed == Len(s) > 0 /\ s[1] \in {"+", "-"}
        body   == IF signed THEN Tail(s) ELSE s
    IN  IF Len(body) < 1 \/ \E i \in 1..Len(body) : body[i] \notin Digits
        THEN [n |-> 0, err |-> "strconv.Atoi: invalid syntax"]
        ELSE [n   |-> IF signed /\ s[1] = "-" THEN 0 - DecimalValue(body, 0)
                                            ELSE DecimalValue(body, 0),
              err |-> NIL]

(***************************************************************************)
(* The parsers of sdk.go.                                                  *)
(***************************************************************************)
\* A plausible slip in GetDIDChain: the first segment instead of the second.
GetDIDChainFirstSegment(did) ==
    LET tmpArr == Split(did, ":")
    IN  IF Len(tmpArr) # 3
        THEN [chain |-> <<>>, err |-> "valid did format"]
        ELSE [chain |-> tmpArr[1], err |-> NIL]

\* GetDIDChain: the second of exactly three colon-separated segments.
GetDIDChain(did) ==
    LET tmpArr == Split(did, ":")
    IN  IF Len(tmpArr) # 3
        THEN [chain |-> <<>>, err |-> "valid did format"]
        ELSE [chain |-> tmpArr[2], err |-> NIL]

\* A plausible slip in getDIDKeyAndIndex: the index is parsed from the part of
\* the fragment before the '-' instead of the part after it.
getDIDKeyAndIndexWrongPart(verifymethod) ==
    LET tmpArr == Split(verifymethod, "#")
    IN  IF Len(tmpArr) # 2
        THEN [did |-> <<>>, idx |-> 0, err |-> "verificationMethod format invalid"]
        ELSE LET keyArr == Split(tmpArr[2], "-")
             IN  IF Len(keyArr) # 2
                 THEN [did |-> <<>>, idx |-> 0,
                       err |-> "verificationMethod format invalid"]
                 ELSE LET a == Atoi(keyArr[1])
                      IN  [did |-> tmpArr[1], idx |-> a.n, err |-> a.err]

\* A plausible slip in getDIDKeyAndIndex: the fragment is split on '-' but the
\* number of its parts is not checked, and the index is parsed from the last.
getDIDKeyAndIndexNoDashCheck(verifymethod) ==
    LET tmpArr == Split(verifymethod, "#")
    IN  IF Len(tmpArr) # 2
        THEN [did |-> <<>>, idx |-> 0, err |-> "verificationMethod format invalid"]
        ELSE LET keyArr == Split(tmpArr[2], "-")
                 a      == Atoi(keyArr[Len(keyArr)])
             IN  [did |-> tmpArr[1], idx |-> a.n, err |-> a.err]

\* A plausible slip in getDIDKeyAndIndex: the fragment is cut at its first
\* '-' only (strings.SplitN with n = 2), so the index keeps any later '-'.
getDIDKeyAndIndexSplitOnce(verifymethod) ==
    LET tmpArr == Split(verifymethod, "#")
    IN  IF Len(tmpArr) # 2
        THEN [did |-> <<>>, idx |-> 0, err |-> "verificationMethod format invalid"]
        ELSE LET frag   == tmpArr[2]
                 dashes == {i \in 1..Len(frag) : frag[i] = "-"}
             IN  IF dashes = {}
                 THEN [did |-> <<>>, idx |-> 0,
                       err |-> "verificationMethod format invalid"]
                 ELSE LET m == CHOOSE i \in dashes : \A j \in dashes : i <= j
                          a == Atoi(SubSeq(frag, m + 1, Len(frag)))
                      IN  [did |-> tmpArr[1], idx |-> a.n, err |-> a.err]

\* getDIDKeyAndIndex: "<did>#<name>-<index>" to (did, index, err).
getDIDKeyAndIndex(verifymethod) ==
    LET tmpArr == Split(verifymethod, "#")
    IN  IF Len(tmpArr) # 2
        THEN [did |-> <<>>, idx |-> 0, err |-> "verificationMethod format invalid"]
        ELSE LET keyArr == Split(tmpArr[2], "-")
             IN  IF Len(keyArr) # 2
                 THEN [did |-> <<>>, idx |-> 0,
                       err |-> "verificationMethod format invalid"]
                 ELSE LET a == Atoi(keyArr[2])
                      IN  [did |-> tmpArr[1], idx |-> a.n, err |-> a.err]

(***************************************************************************)
(* Constants of package modules (protocol tags, actions, error texts).     *)
(***************************************************************************)
SYS_VER == <<"v", "1">>
TYPE_CLIENT_HELLO == <<"c", "l", "i", "e", "n", "t", "_", "h", "e", "l", "l", "o">>
TYPE_SERVER_HELLO == <<"s", "e", "r", "v", "e", "r", "_", "h", "e", "l", "l", "o">>
TYPE_CLIENT_RESPONSE == <<"c", "l", "i", "e", "n", "t", "_", "r", "e", "s", "p", "o", "n", "s", "e">>
ACTION_AUTHORIZATION == 0
ACTION_CERTIFICATION == 1
ERR_WRONG_VERSION == "WrongVersion"
ERR_TYPE_NOT_SUPPORTED == "TypeNotSupported"
ERR_ACTION_NOT_SUPPORTED == "ActionNotSupported"

\* The error texts ValidateClientResponse builds itself.
ERR_DID_MISMATCH == "did and VerificationMethod not match"
ERR_NONCE == "nonce is existed on server side"
ERR_DECODE == "decode proof value failed"
ERR_CHAIN == "not a support did chain"
\* The errors a DidProcessor returns, surfaced unchanged.
ERR_VERIFY_SIG == "VerifySig failed"
ERR_VERIFY_PRESENTATION == "VerifyPresentation failed"

(***************************************************************************)
(* encoding/hex.                                                           *)
(***************************************************************************)
HexDigits == Digits \cup {"a", "b", "c", "d", "e", "f", "A", "B", "C", "D", "E", "F"}

HexVal(c) ==
    IF c \in Digits THEN DigitVal(c)
    ELSE CASE ToLower(c) = "a" -> 10 [] ToLower(c) = "b" -> 11
           [] ToLower(c) = "c" -> 12 [] ToLower(c) = "d" -> 13
           [] ToLower(c) = "e" -> 14 [] ToLower(c) = "f" -> 15

\* hex.DecodeString(s): one byte per pair of hexadecimal digits; an odd
\* length or a character that is no hexadecimal digit is an error.
DecodeString(s) ==
    IF Len(s) % 2 # 0 \/ \E i \in 1..Len(s) : s[i] \notin HexDigits
    THEN [bytes |-> <<>>, err |-> ERR_DECODE]
    ELSE [bytes |-> [i \in 1..(Len(s) \div 2) |->
                        16 * HexVal(s[2 * i - 1]) + HexVal(s[2 * i])],
          err   |-> NIL]

(***************************************************************************)
(* State: the fields of OntLoginSdk, the nonce store behind the two        *)
(* injected nonce functions, and the last call made on the SDK with what   *)
(* it returned and which collaborators it called.                          *)
(***************************************************************************)
VARIABLES
    didProcessors,  \* OntLoginSdk.didProcessors: chain -> DidProcessor
    conf,           \* OntLoginSdk.conf
    nonceStore,     \* the Nonce Authority's record of every nonce
    op,             \* the SDK method that has just run, "idle" between calls
    hello,          \* its argument, when it is GenerateChallenge
    res,            \* its argument, when it is ValidateClientResponse
    err,            \* the error it returns, NIL for none
    out,            \* the ServerHello it returns
    calls,          \* the collaborator calls it made, in order
    pin,            \* the parsers' input string
    pout,           \* what the parser applied to pin returned
    twin,           \* a second ValidateClientResponse call run from the same state
    proc            \* the ValidateClientResponse calls in progress, per caller

vars == <<didProcessors, conf, nonceStore, op, hello, res, err, out, calls, pin, pout,
          twin, proc>>

sdkVars == <<didProcessors, conf, nonceStore, op, hello, res, err, out, calls, twin, proc>>

\* Nonces are opaque to the SDK: the Nonce Authority's are 1..MaxNonces, and
\* 0 is a nonce it never minted.
Nonces == 1..MaxNonces

Actions == {ACTION_AUTHORIZATION, ACTION_CERTIFICATION}

\* A Go map lookup: the zero value (a nil slice) for a missing key.
MapGet(m, k) == IF k \in DOMAIN m THEN m[k] ELSE <<>>

ChainOnt == <<"o", "n", "t">>
ChainEth == <<"e", "t", "h">>

\* The configuration of initTestEnv, with credential filters for both actions.
TestConf ==
    [Chain      |-> <<"ont">>,
     Alg        |-> <<"ES256">>,
     ServerInfo |-> [Name |-> "testServcer", Icon |-> "http://somepic.jpg",
                     Url |-> "https://ont.io", Did |-> "did:ont:sampletest",
                     VerificationMethod |-> ""],
     VCFilters  |-> (ACTION_AUTHORIZATION :>
                        <<[Type |-> "IdentityCredential", Required |-> TRUE]>>)
                    @@ (ACTION_CERTIFICATION :>
                        <<[Type |-> "DegreeCredential", Required |-> TRUE],
                          [Type |-> "AgeCredential", Required |-> FALSE]>>)]

NoHello == [Ver |-> <<>>, Type |-> <<>>, Action |-> 0]

NoResponse ==
    [Ver |-> <<>>, Type |-> <<>>, Did |-> <<>>, Nonce |-> 0,
     Proof |-> [VerificationMethod |-> <<>>, Created |-> 0, Value |-> <<>>],
     VPs |-> <<>>]

NoServerHello == [Type |-> <<>>]

NoParse == [fn |-> "none"]

NoTwin == [res |-> NoResponse, err |-> NIL, calls |-> <<>>]

\* The callers that may be inside ValidateClientResponse at the same time.
Callers == {1, 2}

\* A caller that is not inside ValidateClientResponse.
NoCall ==
    [pc |-> "idle", r |-> NoResponse, did |-> <<>>, index |-> 0, chain |-> <<>>,
     action |-> 0, vi |-> 0, err |-> NIL]

\* NewOntLoginSdk: the four arguments are stored, nothing is called.
NewOntLoginSdk ==
    /\ didProcessors = (ChainOnt :> "ontProcessor") @@ (ChainEth :> "ethProcessor")
    /\ conf = TestConf
    /\ nonceStore = [n \in Nonces |-> [st |-> "unissued", action |-> 0]]
    /\ op = "idle"
    /\ hello = NoHello
    /\ res = NoResponse
    /\ err = NIL
    /\ out = NoServerHello
    /\ calls = <<>>
    /\ twin = NoTwin
    /\ proc = [p \in Callers |-> NoCall]

Init ==
    /\ NewOntLoginSdk
    /\ pin = <<>>
    /\ pout = NoParse

(***************************************************************************)
(* The Nonce Authority behind genRandomNonceFunc and getActionByNonce: it  *)
(* mints nonces it has not issued before, bound to the action asked for,   *)
(* and its lookup succeeds once per nonce.                                 *)
(***************************************************************************)
\* genRandomNonceFunc(action) returning n.
genRandomNonceFunc(store, action, n) ==
    [store EXCEPT ![n] = [st |-> "live", action |-> action]]

\* getActionByNonce(nonce): the bound action of a live nonce, which the
\* lookup invalidates; an error for every other nonce.
getActionByNonce(store, nonce) ==
    IF nonce \in DOMAIN store /\ store[nonce].st = "live"
    THEN [action |-> store[nonce].action, err |-> NIL,
          store  |-> [store EXCEPT ![nonce] = [st |-> "used", action |-> 0]]]
    ELSE [action |-> 0, err |-> "nonce not found", store |-> store]

(***************************************************************************)
(* GenerateChallenge.                                                      *)
(***************************************************************************)
\* A plausible slip in validateClientHello: the type is checked before the
\* version.
validateClientHelloTypeFirst(req) ==
    IF ~EqualFold(req.Type, TYPE_CLIENT_HELLO) THEN ERR_TYPE_NOT_SUPPORTED
    ELSE IF ~EqualFold(req.Ver, SYS_VER) THEN ERR_WRONG_VERSION
    ELSE IF req.Action # ACTION_AUTHORIZATION /\ req.Action # ACTION_CERTIFICATION
         THEN ERR_ACTION_NOT_SUPPORTED
    ELSE NIL

\* validateClientHello: version, then type, then action.
validateClientHello(req) ==
    IF ~EqualFold(req.Ver, SYS_VER) THEN ERR_WRONG_VERSION
    ELSE IF ~EqualFold(req.Type, TYPE_CLIENT_HELLO) THEN ERR_TYPE_NOT_SUPPORTED
    ELSE IF req.Action # ACTION_AUTHORIZATION /\ req.Action # ACTION_CERTIFICATION
         THEN ERR_ACTION_NOT_SUPPORTED
    ELSE NIL

\* The ServerHello GenerateChallenge fills in around the minted nonce.
ServerHello(req, uuid) ==
    [Ver       |-> SYS_VER,
     Type      |-> TYPE_SERVER_HELLO,
     Nonce     |-> uuid,
     Server    |-> conf.ServerInfo,
     Chain     |-> conf.Chain,
     Alg       |-> conf.Alg,
     VCFilters |-> MapGet(conf.VCFilters, req.Action)]

MintCall(action, ret) == [fn |-> "genRandomNonceFunc", action |-> action, ret |-> ret]

\* The hellos a client may send.
Hellos ==
    [Ver    : {SYS_VER, <<"V", "1">>, <<"v", "2">>},
     Type   : {TYPE_CLIENT_HELLO, <<"C", "l", "i", "e", "n", "t", "_", "H", "e", "l", "l", "o">>, TYPE_CLIENT_RESPONSE},
     Action : {ACTION_AUTHORIZATION, ACTION_CERTIFICATION, 2, -1}]

\* A plausible slip in GenerateChallenge: the nonce is minted for the default
\* action instead of the action of the hello.
GenerateChallengeDefaultAction(req, uuid) ==
    IF validateClientHello(req) # NIL
    THEN [err |-> validateClientHello(req), out |-> NoServerHello,
          calls |-> <<>>, store |-> nonceStore]
    ELSE [err   |-> NIL,
          out   |-> ServerHello(req, uuid),
          calls |-> <<MintCall(ACTION_AUTHORIZATION, uuid)>>,
          store |-> genRandomNonceFunc(nonceStore, ACTION_AUTHORIZATION, uuid)]

\* The whole of GenerateChallenge, uuid being what genRandomNonceFunc returns
\* if it is called: the error and the ServerHello returned, the collaborator
\* calls made and the nonce store left behind.
GenerateChallengeBody(req, uuid) ==
    IF validateClientHello(req) # NIL
    THEN [err |-> validateClientHello(req), out |-> NoServerHello,
          calls |-> <<>>, store |-> nonceStore]
    ELSE [err   |-> NIL,
          out   |-> ServerHello(req, uuid),
          calls |-> <<MintCall(req.Action, uuid)>>,
          store |-> genRandomNonceFunc(nonceStore, req.Action, uuid)]

\* A call of GenerateChallenge. The Nonce Authority mints a nonce it has not
\* issued before, so at most MaxNonces hellos are accepted in a behaviour.
GenerateChallenge ==
    \E req \in Hellos, uuid \in Nonces :
        LET x == GenerateChallengeBody(req, uuid)
        IN  /\ op = "idle"
            /\ validateClientHello(req) = NIL => nonceStore[uuid].st = "unissued"
            /\ op' = "GenerateChallenge"
            /\ hello' = req
            /\ err' = x.err
            /\ out' = x.out
            /\ calls' = x.calls
            /\ nonceStore' = x.store
            /\ res' = NoResponse
            /\ UNCHANGED <<didProcessors, conf, pin, pout, twin, proc>>

(***************************************************************************)
(* ValidateClientResponse.                                                 *)
(***************************************************************************)
\* A plausible slip in validateClientResponse: the version and the type are
\* compared exactly instead of case-insensitively.
validateClientResponseExact(response) ==
    IF response.Ver # SYS_VER THEN ERR_WRONG_VERSION
    ELSE IF response.Type # TYPE_CLIENT_RESPONSE THEN ERR_TYPE_NOT_SUPPORTED
    ELSE NIL

\* validateClientResponse: version, then type.
validateClientResponse(response) ==
    IF ~EqualFold(response.Ver, SYS_VER) THEN ERR_WRONG_VERSION
    ELSE IF ~EqualFold(response.Type, TYPE_CLIENT_RESPONSE) THEN ERR_TYPE_NOT_SUPPORTED
    ELSE NIL

\* The record of one collaborator call: its arguments and the error returned.
LookupCall(nonce, e) == [fn |-> "getActionByNonce", nonce |-> nonce, err |-> e]

SigCall(processor, did, index, data, sig, e) ==
    [fn |-> "VerifySig", processor |-> processor, did |-> did, index |-> index,
     data |-> data, sig |-> sig, err |-> e]

VPCall(processor, did, index, vp, requiredTypes, e) ==
    [fn |-> "VerifyPresentation", processor |-> processor, did |-> did,
     index |-> index, vp |-> vp, requiredTypes |-> requiredTypes, err |-> e]

\* A plausible slip in the message: the DID the response claims is signed
\* instead of the DID of the reference.
ClientResponseMsgClaimedDid(r, did) ==
    [Type    |-> r.Type,
     Server  |-> [Name |-> conf.ServerInfo.Name,
                  Url  |-> conf.ServerInfo.Url,
                  Did  |-> conf.ServerInfo.Did],
     Nonce   |-> r.Nonce,
     Did     |-> r.Did,
     Created |-> r.Proof.Created]

\* The message the client signed, rebuilt from the response and the
\* configuration.
ClientResponseMsg(r, did) ==
    [Type    |-> r.Type,
     Server  |-> [Name |-> conf.ServerInfo.Name,
                  Url  |-> conf.ServerInfo.Url,
                  Did  |-> conf.ServerInfo.Did],
     Nonce   |-> r.Nonce,
     Did     |-> did,
     Created |-> r.Proof.Created]

\* json.Marshal(msg): the fields in declaration order, each under its name.
Marshal(msg) ==
    <<<<"type", msg.Type>>,
      <<"server", <<<<"name", msg.Server.Name>>, <<"url", msg.Server.Url>>,
                    <<"did", msg.Server.Did>>>>>>,
      <<"nonce", msg.Nonce>>,
      <<"did", msg.Did>>,
      <<"created", msg.Created>>>>

\* The loop over res.VPs: vpOk[i] is whether the processor accepts the i-th
\* presentation (asked only once VerifySig has accepted). The first error
\* returns.
RECURSIVE VerifyPresentationsFrom(_, _, _, _, _, _, _)
VerifyPresentationsFrom(processor, did, index, vps, requiredTypes, vpOk, i) ==
    IF i > Len(vps) THEN [err |-> NIL, calls |-> <<>>]
    ELSE LET e == IF vpOk[i] THEN NIL ELSE ERR_VERIFY_PRESENTATION
             c == VPCall(processor, did, index, vps[i], requiredTypes, e)
         IN  IF e # NIL THEN [err |-> e, calls |-> <<c>>]
             ELSE LET rest == VerifyPresentationsFrom(processor, did, index, vps,
                                                      requiredTypes, vpOk, i + 1)
                  IN  [err |-> rest.err, calls |-> <<c>> \o rest.calls]

\* A plausible slip in the loop: the error is kept in a variable instead of
\* returned, so every presentation is verified and the error of the last one
\* is what the loop ends with.
RECURSIVE VerifyEveryPresentationFrom(_, _, _, _, _, _, _)
VerifyEveryPresentationFrom(processor, did, index, vps, requiredTypes, vpOk, i) ==
    LET e == IF vpOk[i] THEN NIL ELSE ERR_VERIFY_PRESENTATION
        c == VPCall(processor, did, index, vps[i], requiredTypes, e)
    IN  IF i = Len(vps) THEN [err |-> e, calls |-> <<c>>]
        ELSE LET rest == VerifyEveryPresentationFrom(processor, did, index, vps,
                                                     requiredTypes, vpOk, i + 1)
             IN  [err |-> rest.err, calls |-> <<c>> \o rest.calls]

VerifyPresentationsLastError(processor, did, index, vps, requiredTypes, vpOk) ==
    VerifyEveryPresentationFrom(processor, did, index, vps, requiredTypes, vpOk, 1)

VerifyPresentations(processor, did, index, vps, requiredTypes, vpOk) ==
    VerifyPresentationsFrom(processor, did, index, vps, requiredTypes, vpOk, 1)

\* A plausible slip after VerifySig: its error is not returned.
VerifyWithProcessorIgnoreSigErr(processor, r, did, index, action, data, sig, sigOk, vpOk) ==
    LET e == IF sigOk THEN NIL ELSE ERR_VERIFY_SIG
        c == SigCall(processor, did, index, data, sig, e)
    IN  IF Len(r.VPs) > 0 /\ sigOk
        THEN LET v == VerifyPresentations(processor, did, index, r.VPs,
                                          MapGet(conf.VCFilters, action), vpOk)
             IN  [err |-> v.err, calls |-> <<c>> \o v.calls]
        ELSE [err |-> NIL, calls |-> <<c>>]

\* A plausible slip before the loop over res.VPs: only the filters marked
\* required are handed to VerifyPresentation.
VerifyWithProcessorRequiredOnly(processor, r, did, index, action, data, sig, sigOk, vpOk) ==
    LET e == IF sigOk THEN NIL ELSE ERR_VERIFY_SIG
        c == SigCall(processor, did, index, data, sig, e)
    IN  IF e # NIL THEN [err |-> e, calls |-> <<c>>]
        ELSE IF Len(r.VPs) > 0
             THEN LET requiredTypes == SelectSeq(MapGet(conf.VCFilters, action),
                                                 LAMBDA f : f.Required)
                      v == VerifyPresentations(processor, did, index, r.VPs,
                                               requiredTypes, vpOk)
                  IN  [err |-> v.err, calls |-> <<c>> \o v.calls]
        ELSE [err |-> NIL, calls |-> <<c>>]

\* The end of ValidateClientResponse, once the processor is found: VerifySig
\* (sigOk: whether the processor accepts the signature), then the
\* presentations, if the response has any.
VerifyWithProcessor(processor, r, did, index, action, data, sig, sigOk, vpOk) ==
    LET e == IF sigOk THEN NIL ELSE ERR_VERIFY_SIG
        c == SigCall(processor, did, index, data, sig, e)
    IN  IF e # NIL THEN [err |-> e, calls |-> <<c>>]
        ELSE IF Len(r.VPs) > 0
             THEN LET requiredTypes == MapGet(conf.VCFilters, action)
                      v == VerifyPresentations(processor, did, index, r.VPs,
                                               requiredTypes, vpOk)
                  IN  [err |-> v.err, calls |-> <<c>> \o v.calls]
        ELSE [err |-> NIL, calls |-> <<c>>]

\* A plausible slip at the registry lookup: a chain that has no processor is
\* served by the processor of the first configured chain.
ValidateFromMessageDefaultProcessor(r, did, index, chain, action, sigOk, vpOk) ==
    LET msg     == ClientResponseMsg(r, did)
        sigdata == DecodeString(r.Proof.Value)
    IN  IF sigdata.err # NIL THEN [err |-> ERR_DECODE, calls |-> <<>>]
        ELSE VerifyWithProcessor(
                 IF chain \in DOMAIN didProcessors THEN didProcessors[chain]
                                                   ELSE didProcessors[ChainOnt],
                 r, did, index, action, Marshal(msg), sigdata.bytes, sigOk, vpOk)

\* ValidateClientResponse from the message reconstruction on: the message,
\* hex decoding, json.Marshal (which cannot fail on this message), and the
\* registry lookup.
ValidateFromMessage(r, did, index, chain, action, sigOk, vpOk) ==
    LET msg     == ClientResponseMsg(r, did)
        sigdata == DecodeString(r.Proof.Value)
    IN  IF sigdata.err # NIL THEN [err |-> ERR_DECODE, calls |-> <<>>]
        ELSE IF chain \notin DOMAIN didProcessors
             THEN [err |-> ERR_CHAIN, calls |-> <<>>]
        ELSE VerifyWithProcessor(didProcessors[chain], r, did, index, action,
                                 Marshal(msg), sigdata.bytes, sigOk, vpOk)

\* A plausible slip at the nonce lookup: its error is not checked, and the
\* validation goes on with the action the failed lookup returned.
ValidateFromNonceIgnoreLookupErr(r, did, index, chain, sigOk, vpOk) ==
    LET look == getActionByNonce(nonceStore, r.Nonce)
        lc   == LookupCall(r.Nonce, look.err)
        v    == ValidateFromMessage(r, did, index, chain, look.action, sigOk, vpOk)
    IN  [err |-> v.err, calls |-> <<lc>> \o v.calls, store |-> look.store]

\* A plausible slip at the nonce lookup: the registry is consulted first, and
\* a chain without a processor is refused before the nonce is looked up.
ValidateFromNonceChainFirst(r, did, index, chain, sigOk, vpOk) ==
    IF chain \notin DOMAIN didProcessors
    THEN [err |-> ERR_CHAIN, calls |-> <<>>, store |-> nonceStore]
    ELSE LET look == getActionByNonce(nonceStore, r.Nonce)
             lc   == LookupCall(r.Nonce, look.err)
         IN  IF look.err # NIL
             THEN [err |-> ERR_NONCE, calls |-> <<lc>>, store |-> look.store]
             ELSE LET v == ValidateFromMessage(r, did, index, chain, look.action,
                                               sigOk, vpOk)
                  IN  [err |-> v.err, calls |-> <<lc>> \o v.calls,
                       store |-> look.store]

\* A plausible slip at the nonce lookup: a failed lookup is tried once more.
ValidateFromNonceRetry(r, did, index, chain, sigOk, vpOk) ==
    LET first == getActionByNonce(nonceStore, r.Nonce)
        again == getActionByNonce(first.store, r.Nonce)
        look  == IF first.err = NIL THEN first ELSE again
        lcs   == IF first.err = NIL
                 THEN <<LookupCall(r.Nonce, NIL)>>
                 ELSE <<LookupCall(r.Nonce, first.err), LookupCall(r.Nonce, again.err)>>
    IN  IF look.err # NIL
        THEN [err |-> ERR_NONCE, calls |-> lcs, store |-> look.store]
        ELSE LET v == ValidateFromMessage(r, did, index, chain, look.action,
                                          sigOk, vpOk)
             IN  [err |-> v.err, calls |-> lcs \o v.calls, store |-> look.store]

\* A plausible slip at the nonce lookup: Proof.Value is decoded first, and a
\* value that is no hex string is refused before the nonce is looked up.
ValidateFromNonceDecodeFirst(r, did, index, chain, sigOk, vpOk) ==
    IF DecodeString(r.Proof.Value).err # NIL
    THEN [err |-> ERR_DECODE, calls |-> <<>>, store |-> nonceStore]
    ELSE LET look == getActionByNonce(nonceStore, r.Nonce)
             lc   == LookupCall(r.Nonce, look.err)
         IN  IF look.err # NIL
             THEN [err |-> ERR_NONCE, calls |-> <<lc>>, store |-> look.store]
             ELSE LET v == ValidateFromMessage(r, did, index, chain, look.action,
                                               sigOk, vpOk)
                  IN  [err |-> v.err, calls |-> <<lc>> \o v.calls,
                       store |-> look.store]

\* ValidateClientResponse from the nonce lookup on.
ValidateFromNonce(r, did, index, chain, sigOk, vpOk) ==
    LET look == getActionByNonce(nonceStore, r.Nonce)
        lc   == LookupCall(r.Nonce, look.err)
    IN  IF look.err # NIL
        THEN [err |-> ERR_NONCE, calls |-> <<lc>>, store |-> look.store]
        ELSE LET v == ValidateFromMessage(r, did, index, chain, look.action,
                                          sigOk, vpOk)
             IN  [err |-> v.err, calls |-> <<lc>> \o v.calls, store |-> look.store]

\* A plausible slip in ValidateClientResponse: the DID of the reference is not
\* compared with res.Did.
ValidateClientResponseBodyNoMatch(r, sigOk, vpOk) ==
    LET fe == validateClientResponse(r)
    IN  IF fe # NIL THEN [err |-> fe, calls |-> <<>>, store |-> nonceStore]
        ELSE LET p == getDIDKeyAndIndex(r.Proof.VerificationMethod)
                 c == GetDIDChain(p.did)
             IN  IF c.err # NIL
                 THEN [err |-> c.err, calls |-> <<>>, store |-> nonceStore]
                 ELSE ValidateFromNonce(r, p.did, p.idx, c.chain, sigOk, vpOk)

\* The whole of ValidateClientResponse: the error returned, the collaborator
\* calls made and the nonce store left behind. The error of getDIDKeyAndIndex
\* is assigned and overwritten without being read.
ValidateClientResponseBody(r, sigOk, vpOk) ==
    LET fe == validateClientResponse(r)
    IN  IF fe # NIL THEN [err |-> fe, calls |-> <<>>, store |-> nonceStore]
        ELSE LET p == getDIDKeyAndIndex(r.Proof.VerificationMethod)
             IN  IF ~EqualFold(p.did, r.Did)
                 THEN [err |-> ERR_DID_MISMATCH, calls |-> <<>>, store |-> nonceStore]
                 ELSE LET c == GetDIDChain(p.did)
                      IN  IF c.err # NIL
                          THEN [err |-> c.err, calls |-> <<>>, store |-> nonceStore]
                          ELSE ValidateFromNonce(r, p.did, p.idx, c.chain, sigOk, vpOk)

(***************************************************************************)
(* The responses a client may send. Each is the well-formed response       *)
(* changed in its version and type, or in its reference, proof value and   *)
(* first presentation, or in its list of presentations; each comes with    *)
(* every nonce.                                                            *)
(***************************************************************************)
DidOnt == <<"d", "i", "d", ":", "o", "n", "t", ":", "a", "b">>
DidOntUpper == <<"d", "i", "d", ":", "O", "N", "T", ":", "a", "b">>
DidEth == <<"d", "i", "d", ":", "e", "t", "h", ":", "a", "b">>
DidBtc == <<"d", "i", "d", ":", "b", "t", "c", ":", "a", "b">>
DidShort == <<"d", "i", "d", ":", "o", "n", "t">>

Dids == {DidOnt, DidOntUpper, DidEth, DidBtc, DidShort}

Key0 == <<"#", "k", "e", "y", "-", "0">>

Fragments ==
    {<<"#", "k", "e", "y", "-", "1">>,
     <<"#", "k", "e", "y", "-", "x">>,
     <<"#", "k", "e", "y">>,
     <<"#", "f", "o", "o", "-", "0">>,
     <<"#", "k", "e", "y", "-", "0", "-", "1">>,
     <<"#", "k", "e", "y", "-", "0", "#", "k", "e", "y", "-", "0">>,
     <<>>}

\* <<Did, Proof.VerificationMethod>>: every DID with every DID's "#key-0"
\* reference, and one DID with the other shapes of reference.
References ==
    {<<d, e \o Key0>> : d \in Dids, e \in Dids}
    \cup {<<DidOnt, DidOnt \o f>> : f \in Fragments}
    \cup {<<<<>>, DidOnt>>}

ProofValues == {<<"a", "b">>, <<"a">>, <<"z", "z">>}

Presentations == {"vpA", "vpB"}

PresentationLists == UNION {[1..n -> Presentations] : n \in 0..MaxVPs}

Versions == {SYS_VER, <<"V", "1">>, <<"v", "2">>}

Response(ver, type, ref, nonce, value, vps) ==
    [Ver   |-> ver,
     Type  |-> type,
     Did   |-> ref[1],
     Nonce |-> nonce,
     Proof |-> [VerificationMethod |-> ref[2], Created |-> 1, Value |-> value],
     VPs   |-> vps]

WellFormedRef == <<DidOnt, DidOnt \o Key0>>

Responses ==
    {Response(v, t, WellFormedRef, n, <<"a", "b">>, <<>>) :
        v \in Versions, t \in {TYPE_CLIENT_RESPONSE, TYPE_CLIENT_HELLO},
        n \in 0..MaxNonces}
    \cup {Response(SYS_VER, TYPE_CLIENT_RESPONSE, ref, n, v, vps) :
        ref \in References, n \in 0..MaxNonces, v \in ProofValues,
        vps \in {l \in PresentationLists : Len(l) <= 1}}
    \cup {Response(SYS_VER, TYPE_CLIENT_RESPONSE, WellFormedRef, n, <<"a", "b">>, vps) :
        n \in 0..MaxNonces, vps \in PresentationLists}

ValidateClientResponse ==
    \E r \in Responses, sigOk \in BOOLEAN :
        \E vpOk \in [1..(IF sigOk THEN Len(r.VPs) ELSE 0) -> BOOLEAN] :
            LET x == ValidateClientResponseBody(r, sigOk, vpOk)
            IN  /\ op = "idle"
                /\ op' = "ValidateClientResponse"
                /\ res' = r
                /\ err' = x.err
                /\ calls' = x.calls
                /\ nonceStore' = x.store
                /\ hello' = NoHello
                /\ out' = NoServerHello
                /\ UNCHANGED <<didProcessors, conf, pin, pout, twin, proc>>

\* The call returns: the caller takes the result, and the SDK, which has no
\* field for it, keeps nothing of the call.
Return ==
    /\ op # "idle"
    /\ op' = "idle"
    /\ hello' = NoHello
    /\ res' = NoResponse
    /\ err' = NIL
    /\ out' = NoServerHello
    /\ calls' = <<>>
    /\ UNCHANGED <<didProcessors, conf, nonceStore, pin, pout, twin, proc>>

Next == GenerateChallenge \/ ValidateClientResponse \/ Return

Spec == Init /\ [][Next]_vars

(***************************************************************************)
(* The parsers on their own: every string of at most MaxParts tokens is    *)
(* parsed by GetDIDChain and by getDIDKeyAndIndex.                         *)
(***************************************************************************)
ParseTokens ==
    {<<"d", "i", "d">>, <<"k", "e", "y">>, <<":">>, <<"#">>, <<"-">>, <<"0">>, <<"1">>, <<"+">>}

RECURSIVE Flatten(_)
Flatten(ts) == IF ts = <<>> THEN <<>> ELSE Head(ts) \o Flatten(Tail(ts))

ParseInputs ==
    {Flatten(ts) : ts \in UNION {[1..n -> ParseTokens] : n \in 0..MaxParts}}

InitParse ==
    /\ NewOntLoginSdk
    /\ pin \in ParseInputs
    /\ pout = NoParse

ApplyGetDIDChain ==
    /\ pout' = [fn |-> "GetDIDChain", r |-> GetDIDChain(pin)]
    /\ UNCHANGED <<sdkVars, pin>>

ApplyGetDIDKeyAndIndex ==
    /\ pout' = [fn |-> "getDIDKeyAndIndex", r |-> getDIDKeyAndIndex(pin)]
    /\ UNCHANGED <<sdkVars, pin>>

NextParse == ApplyGetDIDChain \/ ApplyGetDIDKeyAndIndex

SpecParse == InitParse /\ [][NextParse]_vars

(***************************************************************************)
(* Two ValidateClientResponse calls compared: from one state of the SDK and *)
(* of the Nonce Authority, the call is run on a response and, from the same *)
(* state, on a response that differs from it in one field.                  *)
(***************************************************************************)
TypeUpper ==
    <<"C", "l", "i", "e", "n", "t", "_", "R", "e", "s", "p", "o", "n", "s", "e">>

PairVersions == {SYS_VER, <<"V", "1">>}

PairTypes == {TYPE_CLIENT_RESPONSE, TypeUpper}

PairReferences ==
    {<<DidOnt, DidOnt \o Key0>>,
     <<DidOntUpper, DidOnt \o Key0>>,
     <<DidOnt, DidOntUpper \o Key0>>,
     <<DidOnt, DidOnt \o <<"#", "k", "e", "y", "-", "1">>>>,
     <<DidEth, DidEth \o Key0>>}

PairCreated == {1, 2}

PairValues == {<<"a", "b">>, <<"c", "d">>}

PairVPs == {<<>>, <<"vpA">>}

PairResponse(ver, type, ref, nonce, created, value, vps) ==
    [Ver   |-> ver,
     Type  |-> type,
     Did   |-> ref[1],
     Nonce |-> nonce,
     Proof |-> [VerificationMethod |-> ref[2], Created |-> created, Value |-> value],
     VPs   |-> vps]

PairResponses ==
    {PairResponse(v, t, ref, n, c, <<"a", "b">>, <<>>) :
        v \in PairVersions, t \in PairTypes, ref \in PairReferences,
        n \in Nonces, c \in PairCreated}

\* The responses that differ from r in one field.
VariantsOf(r) ==
    ({[r EXCEPT !.Ver = v] : v \in PairVersions}
     \cup {[r EXCEPT !.Type = t] : t \in PairTypes}
     \cup {[r EXCEPT !.Did = ref[1], !.Proof.VerificationMethod = ref[2]] :
              ref \in PairReferences}
     \cup {[r EXCEPT !.Nonce = n] : n \in Nonces}
     \cup {[r EXCEPT !.Proof.Created = c] : c \in PairCreated}
     \cup {[r EXCEPT !.Proof.Value = v] : v \in PairValues}
     \cup {[r EXCEPT !.VPs = vps] : vps \in PairVPs})
    \ {r}

\* Every issued nonce is still valid, bound to one of the two actions.
InitPair ==
    /\ didProcessors = (ChainOnt :> "ontProcessor") @@ (ChainEth :> "ethProcessor")
    /\ conf = TestConf
    /\ nonceStore \in [Nonces -> {[st |-> "live", action |-> a] : a \in Actions}]
    /\ op = "idle"
    /\ hello = NoHello
    /\ res = NoResponse
    /\ err = NIL
    /\ out = NoServerHello
    /\ calls = <<>>
    /\ twin = NoTwin
    /\ proc = [p \in Callers |-> NoCall]
    /\ pin = <<>>
    /\ pout = NoParse

ValidatePair ==
    \E r \in PairResponses, sigOk \in BOOLEAN, sigOk2 \in BOOLEAN :
        \E r2 \in VariantsOf(r) :
            \E vpOk2 \in [1..(IF sigOk2 THEN Len(r2.VPs) ELSE 0) -> BOOLEAN] :
                LET x == ValidateClientResponseBody(r, sigOk, <<>>)
                    y == ValidateClientResponseBody(r2, sigOk2, vpOk2)
                IN  /\ op = "idle"
                    /\ op' = "ValidateClientResponse"
                    /\ res' = r
                    /\ err' = x.err
                    /\ calls' = x.calls
                    /\ nonceStore' = x.store
                    /\ twin' = [res |-> r2, err |-> y.err, calls |-> y.calls]
                    /\ hello' = NoHello
                    /\ out' = NoServerHello
                    /\ UNCHANGED <<didProcessors, conf, pin, pout, proc>>

NextPair == ValidatePair

SpecPair == InitPair /\ [][NextPair]_vars

(***************************************************************************)
(* Concurrent callers: ValidateClientResponse has no lock, so two callers   *)
(* on one SDK interleave between its statements. Each step below is a       *)
(* stretch of the method that touches shared state at most once: the nonce  *)
(* store through getActionByNonce, which the Nonce Authority runs           *)
(* atomically, or the read-only conf and didProcessors.                     *)
(***************************************************************************)
\* The call has returned e.
Returned(pr, e) == [pr EXCEPT !.pc = "done", !.err = e]

\* Lines 98-112: the format check, the reference parse, the DID match and
\* GetDIDChain, all on the caller's own argument.
EnterCall(r) ==
    LET pr == [NoCall EXCEPT !.r = r]
        fe == validateClientResponse(r)
    IN  IF fe # NIL THEN Returned(pr, fe)
        ELSE LET p == getDIDKeyAndIndex(r.Proof.VerificationMethod)
             IN  IF ~EqualFold(p.did, r.Did) THEN Returned(pr, ERR_DID_MISMATCH)
                 ELSE LET c == GetDIDChain(p.did)
                      IN  IF c.err # NIL THEN Returned(pr, c.err)
                          ELSE [pr EXCEPT !.pc = "lookup", !.did = p.did,
                                          !.index = p.idx, !.chain = c.chain]

\* A plausible slip at the nonce lookup: its error is not checked.
LookupStepIgnoreErr(pr, store) ==
    LET look == getActionByNonce(store, pr.r.Nonce)
    IN  [proc  |-> [pr EXCEPT !.pc = "build", !.action = look.action],
         store |-> look.store]

\* Lines 113-116: the nonce lookup.
LookupStep(pr, store) ==
    LET look == getActionByNonce(store, pr.r.Nonce)
    IN  IF look.err # NIL
        THEN [proc |-> Returned(pr, ERR_NONCE), store |-> look.store]
        ELSE [proc  |-> [pr EXCEPT !.pc = "build", !.action = look.action],
              store |-> look.store]

\* Lines 117-140: the message, hex decoding, json.Marshal and the registry
\* lookup.
BuildStep(pr) ==
    IF DecodeString(pr.r.Proof.Value).err # NIL THEN Returned(pr, ERR_DECODE)
    ELSE IF pr.chain \notin DOMAIN didProcessors THEN Returned(pr, ERR_CHAIN)
    ELSE [pr EXCEPT !.pc = "sig"]

\* Lines 141-147: VerifySig, then the test for presentations.
SigStep(pr, sigOk) ==
    IF ~sigOk THEN Returned(pr, ERR_VERIFY_SIG)
    ELSE IF Len(pr.r.VPs) > 0 THEN [pr EXCEPT !.pc = "vp", !.vi = 1]
    ELSE Returned(pr, NIL)

\* Lines 148-154: one turn of the loop over res.VPs.
VPStep(pr, vpOk) ==
    IF ~vpOk THEN Returned(pr, ERR_VERIFY_PRESENTATION)
    ELSE IF pr.vi = Len(pr.r.VPs) THEN Returned(pr, NIL)
    ELSE [pr EXCEPT !.vi = pr.vi + 1]

\* The responses the concurrent callers send.
ConcReferences ==
    {WellFormedRef, <<DidOnt, DidEth \o Key0>>, <<DidBtc, DidBtc \o Key0>>}

ConcResponses ==
    {Response(SYS_VER, TYPE_CLIENT_RESPONSE, ref, n, v, vps) :
        ref \in ConcReferences, n \in 0..MaxNonces,
        v \in {<<"a", "b">>, <<"z", "z">>}, vps \in {<<>>, <<"vpA">>}}

\* Every issued nonce is still valid, and no caller is inside the method.
InitConc ==
    /\ didProcessors = (ChainOnt :> "ontProcessor") @@ (ChainEth :> "ethProcessor")
    /\ conf = TestConf
    /\ nonceStore \in [Nonces -> {[st |-> "live", action |-> a] : a \in Actions}]
    /\ op = "idle"
    /\ hello = NoHello
    /\ res = NoResponse
    /\ err = NIL
    /\ out = NoServerHello
    /\ calls = <<>>
    /\ twin = NoTwin
    /\ proc = [p \in Callers |-> NoCall]
    /\ pin = <<>>
    /\ pout = NoParse

concUnchanged == <<didProcessors, conf, op, hello, res, err, out, calls, twin, pin, pout>>

CallEnter(p) ==
    \E r \in ConcResponses :
        /\ proc[p].pc = "idle"
        /\ proc' = [proc EXCEPT ![p] = EnterCall(r)]
        /\ UNCHANGED <<concUnchanged, nonceStore>>

CallLookup(p) ==
    /\ proc[p].pc = "lookup"
    /\ LET x == LookupStep(proc[p], nonceStore)
       IN  /\ proc' = [proc EXCEPT ![p] = x.proc]
           /\ nonceStore' = x.store
    /\ UNCHANGED concUnchanged

CallBuild(p) ==
    /\ proc[p].pc = "build"
    /\ proc' = [proc EXCEPT ![p] = BuildStep(proc[p])]
    /\ UNCHANGED <<concUnchanged, nonceStore>>

CallVerifySig(p) ==
    \E sigOk \in BOOLEAN :
        /\ proc[p].pc = "sig"
        /\ proc' = [proc EXCEPT ![p] = SigStep(proc[p], sigOk)]
        /\ UNCHANGED <<concUnchanged, nonceStore>>

CallVerifyPresentation(p) ==
    \E vpOk \in BOOLEAN :
        /\ proc[p].pc = "vp"
        /\ proc' = [proc EXCEPT ![p] = VPStep(proc[p], vpOk)]
        /\ UNCHANGED <<concUnchanged, nonceStore>>

NextConc ==
    \E p \in Callers :
        \/ CallEnter(p)
        \/ CallLookup(p)
        \/ CallBuild(p)
        \/ CallVerifySig(p)
        \/ CallVerifyPresentation(p)

SpecConc == InitConc /\ [][NextConc]_vars

(***************************************************************************)
(* Vocabulary of the properties.                                           *)
(***************************************************************************)
Validated == op = "ValidateClientResponse"

Challenged == op = "GenerateChallenge"

CallsTo(fn) == SelectSeq(calls, LAMBDA c : c.fn = fn)

\* No DidProcessor method was called.
NoResolverCall == CallsTo("VerifySig") = <<>> /\ CallsTo("VerifyPresentation") = <<>>

\* What the response's reference parses to, and the chain of that DID.
ParsedRef(r) == getDIDKeyAndIndex(r.Proof.VerificationMethod)

ParsedChain(r) == GetDIDChain(ParsedRef(r).did)

\* The format, DID-match and DID-shape checks pass.
PassesEarlyChecks(r) ==
    /\ validateClientResponse(r) = NIL
    /\ EqualFold(ParsedRef(r).did, r.Did)
    /\ ParsedChain(r).err = NIL

\* C1: a response is accepted only if no step failed: the format check, the
\* DID match, the DID parse, the nonce lookup, hex decoding and the registry
\* lookup succeeded, VerifySig was called once, on the processor of the DID's
\* chain, with the parsed DID and key index, the rebuilt message and the
\* decoded proof value, and neither it nor any other call returned an error.
C1_AcceptedOnlyIfVerified ==
    (Validated /\ err = NIL) =>
        LET p    == ParsedRef(res)
            sig  == DecodeString(res.Proof.Value)
        IN  /\ PassesEarlyChecks(res)
            /\ calls # <<>> /\ calls[1] = LookupCall(res.Nonce, NIL)
            /\ sig.err = NIL
            /\ ParsedChain(res).chain \in DOMAIN didProcessors
            /\ CallsTo("VerifySig") =
                   <<SigCall(didProcessors[ParsedChain(res).chain], p.did, p.idx,
                             Marshal(ClientResponseMsg(res, p.did)), sig.bytes, NIL)>>
            /\ Len(CallsTo("VerifyPresentation")) = Len(res.VPs)
            /\ \A i \in 1..Len(calls) : calls[i].err = NIL

C1_Witness ==
    /\ Validated /\ err = NIL
    /\ Len(CallsTo("VerifySig")) = 1
    /\ Len(res.VPs) = 1

\* C2: with a Nonce Authority that invalidates a nonce on its first
\* successful lookup, a nonce that has been looked up successfully stays
\* invalid, and every later ValidateClientResponse that carries it and passes
\* the format, DID-match and DID-shape checks fails with the nonce error.
C2_ReplayRejected ==
    [][/\ \A n \in Nonces :
              /\ nonceStore[n].st = "used" => nonceStore'[n].st = "used"
              /\ (op' = "ValidateClientResponse"
                  /\ calls' # <<>> /\ calls'[1] = LookupCall(n, NIL))
                    => nonceStore'[n].st = "used"
       /\ (/\ op' = "ValidateClientResponse"
           /\ res'.Nonce \in Nonces
           /\ nonceStore[res'.Nonce].st = "used"
           /\ PassesEarlyChecks(res'))
             => err' = ERR_NONCE /\ NoResolverCall']_vars

\* A call that failed at the lookup of a nonce an earlier call had used up.
C2_Witness ==
    /\ Validated /\ err = ERR_NONCE
    /\ res.Nonce \in Nonces
    /\ nonceStore[res.Nonce].st = "used"
    /\ calls = <<LookupCall(res.Nonce, "nonce not found")>>

\* C3: a response that passes the format check and whose Did is not equal,
\* case-insensitively, to the DID the parser takes from
\* Proof.VerificationMethod fails with the DID-mismatch error before any
\* collaborator (nonce lookup, VerifySig, VerifyPresentation) is called.
C3_DidMismatchFirst ==
    (/\ Validated
     /\ validateClientResponse(res) = NIL
     /\ ~EqualFold(ParsedRef(res).did, res.Did))
        => err = ERR_DID_MISMATCH /\ calls = <<>>

\* A mismatch between two well-formed DIDs of registered chains.
C3_Witness ==
    /\ Validated /\ err = ERR_DID_MISMATCH
    /\ res.Did = DidOnt
    /\ res.Proof.VerificationMethod = DidEth \o Key0

\* C4 (as claimed): reference parsing is a hard stop, so a response whose
\* reference the parser rejects, "did:ont:ab#key-x" with Did "did:ont:ab"
\* among them, gets an error instead of being verified on a default key index.
C4_MalformedReferenceRejected ==
    (/\ Validated
     /\ validateClientResponse(res) = NIL
     /\ ParsedRef(res).err # NIL)
        => err # NIL

\* C5: once VerifySig has accepted a response with presentations,
\* VerifyPresentation is called on them in list order, nothing is called after
\* the first error, that error is returned, and the response is accepted only
\* if every presentation of the list was verified without error.
C5_PresentationsAllOrNothing ==
    (/\ Validated
     /\ Len(res.VPs) > 0
     /\ \E i \in 1..Len(calls) : calls[i].fn = "VerifySig" /\ calls[i].err = NIL)
        => LET vp == CallsTo("VerifyPresentation")
               n  == Len(vp)
           IN  /\ n >= 1 /\ n <= Len(res.VPs)
               /\ vp = SubSeq(calls, Len(calls) - n + 1, Len(calls))
               /\ \A i \in 1..n : vp[i].vp = res.VPs[i]
               /\ \A i \in 1..(n - 1) : vp[i].err = NIL
               /\ err = vp[n].err
               /\ vp[n].err = NIL => n = Len(res.VPs)

\* Two presentations, the first verifies and the second does not.
C5_Witness ==
    /\ Validated /\ err = ERR_VERIFY_PRESENTATION
    /\ Len(res.VPs) = 2
    /\ LET vp == CallsTo("VerifyPresentation")
       IN  Len(vp) = 2 /\ vp[1].err = NIL /\ vp[2].err # NIL

\* C6: a response whose DID (the one the reference names, which the code
\* resolves) has a chain segment that is no key of the registry gets an
\* error, and no DidProcessor method is called.
C6_UnregisteredChainRejected ==
    (/\ Validated
     /\ ParsedChain(res).err = NIL
     /\ ParsedChain(res).chain \notin DOMAIN didProcessors)
        => err # NIL /\ NoResolverCall

\* An unregistered chain with a live nonce and a well-encoded proof value.
C6_Witness ==
    /\ Validated /\ err = ERR_CHAIN
    /\ calls = <<LookupCall(res.Nonce, NIL)>>
    /\ res.Did = DidBtc

\* C7 (as claimed): every hello whose Action is neither Authorization nor
\* Certification is rejected with ActionNotSupported and the mint function is
\* not called; an accepted hello calls it once, with the hello's Action, and
\* the ServerHello carries the nonce it returned.
C7_ActionNotSupportedAlways ==
    Challenged =>
        /\ hello.Action \notin Actions
              => err = ERR_ACTION_NOT_SUPPORTED /\ calls = <<>>
        /\ err = NIL
              => /\ Len(calls) = 1
                 /\ calls[1] = MintCall(hello.Action, out.Nonce)

\* C7 (amended): such a hello is rejected without a call of the mint
\* function, with ActionNotSupported when its version and type are the
\* supported ones and with the error of the first failing check otherwise.
C7_UnsupportedActionRejected ==
    Challenged =>
        /\ hello.Action \notin Actions
              => /\ calls = <<>>
                 /\ out = NoServerHello
                 /\ err = IF ~EqualFold(hello.Ver, SYS_VER) THEN ERR_WRONG_VERSION
                          ELSE IF ~EqualFold(hello.Type, TYPE_CLIENT_HELLO)
                               THEN ERR_TYPE_NOT_SUPPORTED
                          ELSE ERR_ACTION_NOT_SUPPORTED
        /\ err = NIL
              => /\ hello.Action \in Actions
                 /\ Len(calls) = 1
                 /\ calls[1] = MintCall(hello.Action, out.Nonce)
                 /\ nonceStore[out.Nonce] = [st |-> "live", action |-> hello.Action]

C7_Witness ==
    /\ Challenged
    /\ hello.Action \notin Actions
    /\ err = ERR_ACTION_NOT_SUPPORTED

\* The response of the end-to-end scenario: the supported version and type, a
\* Did "did:<chain>:<id>" of a registered chain, the reference "<Did>#key-<N>",
\* a hex-encoded proof value and no presentations.
HasNone(str, chars) == \A i \in 1..Len(str) : str[i] \notin chars

StartsWith(str, prefix) ==
    Len(str) >= Len(prefix) /\ SubSeq(str, 1, Len(prefix)) = prefix

EndToEndResponse(r) ==
    /\ EqualFold(r.Ver, SYS_VER)
    /\ EqualFold(r.Type, TYPE_CLIENT_RESPONSE)
    /\ \E chain \in DOMAIN didProcessors :
          LET prefix == <<"d", "i", "d", ":">> \o chain \o <<":">>
          IN  /\ StartsWith(r.Did, prefix)
              /\ HasNone(SubSeq(r.Did, Len(prefix) + 1, Len(r.Did)), {":", "#"})
    /\ LET vm     == r.Proof.VerificationMethod
           prefix == r.Did \o <<"#", "k", "e", "y", "-">>
       IN  /\ StartsWith(vm, prefix)
           /\ Len(vm) > Len(prefix)
           /\ \A i \in (Len(prefix) + 1)..Len(vm) : vm[i] \in Digits
    /\ Len(r.Proof.Value) % 2 = 0
    /\ \A i \in 1..Len(r.Proof.Value) : r.Proof.Value[i] \in HexDigits
    /\ r.VPs = <<>>

\* C8: a response of that form carrying a nonce GenerateChallenge issued,
\* which no lookup has used up, fails only if VerifySig returns an error: it
\* is accepted whenever VerifySig returns nil.
C8_EndToEndAccepted ==
    [][(/\ op' = "ValidateClientResponse"
        /\ EndToEndResponse(res')
        /\ res'.Nonce \in Nonces
        /\ nonceStore[res'.Nonce].st = "live")
          => \/ err' = NIL
             \/ /\ err' = ERR_VERIFY_SIG
                /\ \E i \in 1..Len(calls') :
                      calls'[i].fn = "VerifySig" /\ calls'[i].err # NIL]_vars

C8_Witness ==
    /\ Validated /\ err = NIL
    /\ EndToEndResponse(res)
    /\ res.Did = DidOnt
    /\ Len(calls) = 2 /\ calls[2].fn = "VerifySig" /\ calls[2].index = 0

(***************************************************************************)
(* Properties of the parsers, under SpecParse.                             *)
(***************************************************************************)
Positions(str, ch) == {i \in 1..Len(str) : str[i] = ch}

\* The number a string of decimal digits writes.
RECURSIVE NumberOf(_)
NumberOf(ds) ==
    IF ds = <<>> THEN 0
    ELSE 10 * NumberOf(SubSeq(ds, 1, Len(ds) - 1)) + DigitVal(ds[Len(ds)])

IsDigits(str) == Len(str) > 0 /\ \A i \in 1..Len(str) : str[i] \in Digits

\* An integer as strconv.Atoi reads one: digits after an optional sign.
IsInteger(str) ==
    \/ IsDigits(str)
    \/ Len(str) > 1 /\ str[1] \in {"+", "-"} /\ IsDigits(Tail(str))

ParsedKey == pout.fn = "getDIDKeyAndIndex"

\* C9: the parser takes "X#key-N", X free of '#' and N an integer >= 0
\* written in decimal digits, to (X, N, no error), and returns an error for a
\* reference with no '#', with no '-' in the fragment after the '#', or with
\* an index after the '-' that is no integer.
C9_ParserAcceptsKeyReferences ==
    ParsedKey =>
        /\ \A h \in Positions(pin, "#") :
              LET x    == SubSeq(pin, 1, h - 1)
                  frag == SubSeq(pin, h + 1, Len(pin))
                  n    == SubSeq(frag, 5, Len(frag))
              IN  (/\ HasNone(x, {"#"})
                   /\ StartsWith(frag, <<"k", "e", "y", "-">>)
                   /\ IsDigits(n))
                    => pout.r = [did |-> x, idx |-> NumberOf(n), err |-> NIL]
        /\ Positions(pin, "#") = {} => pout.r.err # NIL
        /\ \A h \in Positions(pin, "#") :
              LET frag == SubSeq(pin, h + 1, Len(pin))
              IN  /\ Positions(frag, "-") = {} => pout.r.err # NIL
                  /\ \A m \in Positions(frag, "-") :
                        ~IsInteger(SubSeq(frag, m + 1, Len(frag)))
                            => pout.r.err # NIL

\* "#key-10" parses to the empty DID and the index ten.
C9_Witness ==
    /\ ParsedKey
    /\ pin = <<"#", "k", "e", "y", "-", "1", "0">>
    /\ pout.r = [did |-> <<>>, idx |-> 10, err |-> NIL]

ParsedChainOf == pout.fn = "GetDIDChain"

\* C10: GetDIDChain returns the second colon-separated segment, and no
\* error, for "did:<chain>:<id>", and an error for every string that does not
\* hold exactly two colons.
C10_GetDIDChainSecondSegment ==
    ParsedChainOf =>
        LET colons == Positions(pin, ":")
        IN  /\ (Cardinality(colons) = 2 /\ StartsWith(pin, <<"d", "i", "d", ":">>))
                  => \E k \in colons :
                        /\ k > 4
                        /\ pout.r = [chain |-> SubSeq(pin, 5, k - 1), err |-> NIL]
            /\ Cardinality(colons) # 2 => pout.r.err # NIL

C10_Witness ==
    /\ ParsedChainOf
    /\ pin = <<"d", "i", "d", ":", "k", "e", "y", ":", "1">>
    /\ pout.r = [chain |-> <<"k", "e", "y">>, err |-> NIL]

\* C11 (as claimed): the parser accepts a reference only if its fragment
\* after the '#' begins with the literal "key-".
C11_OnlyKeyFragments ==
    (ParsedKey /\ pout.r.err = NIL) =>
        \E h \in Positions(pin, "#") :
            StartsWith(SubSeq(pin, h + 1, Len(pin)), <<"k", "e", "y", "-">>)

\* C11 (amended): the parser accepts a reference exactly when it holds one
\* '#', the fragment after it holds one '-', and what follows the '-' is an
\* integer; it then returns what precedes the '#' and that integer, whatever
\* stands between the '#' and the '-'.
C11_ParserIgnoresFragmentName ==
    ParsedKey =>
        LET hs == Positions(pin, "#")
        IN  IF /\ Cardinality(hs) = 1
               /\ \E h \in hs :
                     LET frag == SubSeq(pin, h + 1, Len(pin))
                     IN  /\ Cardinality(Positions(frag, "-")) = 1
                         /\ \E m \in Positions(frag, "-") :
                               IsInteger(SubSeq(frag, m + 1, Len(frag)))
            THEN /\ pout.r.err = NIL
                 /\ \E h \in hs : pout.r.did = SubSeq(pin, 1, h - 1)
            ELSE pout.r.err # NIL

\* "did#did-0", whose fragment is not a key name, parses to ("did", 0).
C11_Witness ==
    /\ ParsedKey
    /\ pin = <<"d", "i", "d", "#", "d", "i", "d", "-", "0">>
    /\ pout.r = [did |-> <<"d", "i", "d">>, idx |-> 0, err |-> NIL]

\* The response passes the early checks and names a chain without processor.
UnregisteredChain(r) ==
    /\ PassesEarlyChecks(r)
    /\ ParsedChain(r).chain \notin DOMAIN didProcessors

\* C12 (as claimed): when the chain of the response's DID is not in the
\* registry the call fails with the unsupported-chain error whatever the
\* nonce and the proof value are, before the nonce lookup is invoked.
C12_ChainBeforeNonce ==
    (Validated /\ UnregisteredChain(res)) => err = ERR_CHAIN /\ calls = <<>>

\* C12 (amended): the registry is consulted after the nonce lookup and the
\* hex decoding. With an unregistered chain the lookup is the one collaborator
\* call made, the error is the nonce error when the lookup fails, the decode
\* error when the proof value is no hex string, the unsupported-chain error
\* otherwise, and a nonce that was valid has been used up by the call.
C12_ChainAfterNonceAndDecode ==
    (Validated /\ UnregisteredChain(res)) =>
        /\ Len(calls) = 1
        /\ calls[1].fn = "getActionByNonce" /\ calls[1].nonce = res.Nonce
        /\ err = IF calls[1].err # NIL THEN ERR_NONCE
                 ELSE IF DecodeString(res.Proof.Value).err # NIL THEN ERR_DECODE
                 ELSE ERR_CHAIN
        /\ res.Nonce \in Nonces => nonceStore[res.Nonce].st # "live"

\* An unregistered chain, refused after the lookup has used up the nonce.
C12_Witness ==
    /\ Validated /\ UnregisteredChain(res)
    /\ err = ERR_CHAIN
    /\ res.Nonce \in Nonces /\ nonceStore[res.Nonce].st = "used"
    /\ calls = <<LookupCall(res.Nonce, NIL)>>

\* The credential types a list of filters names.
TypesOf(filters) == [i \in 1..Len(filters) |-> filters[i].Type]

\* C13 (as claimed): every VerifyPresentation call gets the credential types
\* of those filters of the action bound to the response's nonce whose
\* required flag is set.
C13_OnlyRequiredTypes ==
    [][op' = "ValidateClientResponse" =>
          \A i \in 1..Len(calls') :
              calls'[i].fn = "VerifyPresentation" =>
                  TypesOf(calls'[i].requiredTypes) =
                      TypesOf(SelectSeq(MapGet(conf.VCFilters,
                                               nonceStore[res'.Nonce].action),
                                        LAMBDA f : f.Required))]_vars

\* C13 (amended): every VerifyPresentation call gets the whole list of
\* filters configured for the action that was bound to the response's nonce,
\* required and optional ones in configuration order, each with its flag; no
\* filter of another action is in it.
C13_AllFiltersOfBoundAction ==
    [][op' = "ValidateClientResponse" =>
          \A i \in 1..Len(calls') :
              calls'[i].fn = "VerifyPresentation" =>
                  /\ res'.Nonce \in Nonces
                  /\ nonceStore[res'.Nonce].st = "live"
                  /\ nonceStore[res'.Nonce].action \in DOMAIN conf.VCFilters
                  /\ calls'[i].requiredTypes =
                         conf.VCFilters[nonceStore[res'.Nonce].action]
                  /\ \A a \in DOMAIN conf.VCFilters :
                        a # nonceStore[res'.Nonce].action =>
                            \A j \in 1..Len(conf.VCFilters[a]) :
                                \A k \in 1..Len(calls'[i].requiredTypes) :
                                    calls'[i].requiredTypes[k] # conf.VCFilters[a][j]]_vars

\* A presentation verified against the filters of Certification, the optional
\* one among them.
C13_Witness ==
    /\ Validated
    /\ \E i \in 1..Len(calls) :
          /\ calls[i].fn = "VerifyPresentation"
          /\ calls[i].requiredTypes = conf.VCFilters[ACTION_CERTIFICATION]
          /\ \E k \in 1..Len(calls[i].requiredTypes) :
                ~calls[i].requiredTypes[k].Required

\* C15: one ValidateClientResponse call invokes the nonce lookup at most
\* once; a call that reaches VerifySig has invoked it exactly once, before
\* VerifySig and for the nonce of the response; and when the lookup returns an
\* error the call returns the nonce error and no DidProcessor method is
\* called.
C15_LookupOncePerCall ==
    Validated =>
        LET lookups == CallsTo("getActionByNonce")
        IN  /\ Len(lookups) <= 1
            /\ CallsTo("VerifySig") # <<>> =>
                  /\ Len(lookups) = 1
                  /\ calls[1] = LookupCall(res.Nonce, NIL)
            /\ \A i \in 1..Len(lookups) :
                  lookups[i].err # NIL =>
                      /\ err = ERR_NONCE
                      /\ NoResolverCall
                      /\ Len(calls) = 1

\* A call that stopped at a failed lookup of a nonce that was never minted.
C15_Witness ==
    /\ Validated /\ err = ERR_NONCE
    /\ res.Nonce \notin Nonces
    /\ calls = <<LookupCall(res.Nonce, "nonce not found")>>

\* Two strings that differ at most in the case of their letters.
SameUpToCase(s, t) ==
    /\ Len(s) = Len(t)
    /\ \A i \in 1..Len(s) :
          \/ s[i] = t[i]
          \/ \E u \in DOMAIN LowerOf : {s[i], t[i]} = {u, LowerOf[u]}

\* C17: GenerateChallenge reports the first violation only, in the order
\* version, type, action: a hello whose version is not the supported one up
\* to letter case fails with WrongVersion whatever its type and action; one
\* with the supported version and a type that is not client_hello up to
\* letter case fails with TypeNotSupported whatever its action; one whose
\* version and type are supported up to letter case fails only on its action.
C17_FirstViolationWins ==
    Challenged =>
        IF ~SameUpToCase(hello.Ver, SYS_VER) THEN err = ERR_WRONG_VERSION
        ELSE IF ~SameUpToCase(hello.Type, TYPE_CLIENT_HELLO)
             THEN err = ERR_TYPE_NOT_SUPPORTED
        ELSE IF hello.Action \in Actions THEN err = NIL
        ELSE err = ERR_ACTION_NOT_SUPPORTED

\* A hello with three violations, reported as WrongVersion.
C17_Witness ==
    /\ Challenged /\ err = ERR_WRONG_VERSION
    /\ hello.Ver = <<"v", "2">>
    /\ hello.Type = TYPE_CLIENT_RESPONSE
    /\ hello.Action \notin Actions

\* The errors of the steps that follow the nonce lookup.
LaterStepErrors == {ERR_DECODE, ERR_CHAIN, ERR_VERIFY_SIG, ERR_VERIFY_PRESENTATION}

\* C18: a call that fails at hex decoding, at the registry lookup, in
\* VerifySig or in VerifyPresentation has looked the nonce up first, so the
\* nonce, valid before the call, is used up after it; it stays used up, and a
\* later response of the valid form that carries it fails with the nonce
\* error.
C18_FailedAttemptBurnsNonce ==
    [][/\ (op' = "ValidateClientResponse" /\ err' \in LaterStepErrors)
            => /\ res'.Nonce \in Nonces
               /\ nonceStore[res'.Nonce].st = "live"
               /\ nonceStore'[res'.Nonce].st = "used"
               /\ calls'[1] = LookupCall(res'.Nonce, NIL)
       /\ \A n \in Nonces :
              nonceStore[n].st = "used" => nonceStore'[n].st = "used"
       /\ (/\ op' = "ValidateClientResponse"
           /\ res'.Nonce \in Nonces
           /\ nonceStore[res'.Nonce].st = "used"
           /\ EndToEndResponse(res'))
             => err' = ERR_NONCE /\ calls' = <<LookupCall(res'.Nonce, "nonce not found")>>]_vars

\* A call that failed at hex decoding and left its nonce used up.
C18_Witness ==
    /\ Validated /\ err = ERR_DECODE
    /\ res.Nonce \in Nonces
    /\ nonceStore[res.Nonce].st = "used"
    /\ calls = <<LookupCall(res.Nonce, NIL)>>

\* C19: whenever getDIDKeyAndIndex returns no error the index it returns is
\* not negative: the text it converts holds no '-', which is the separator
\* the fragment was split on.
C19_IndexNeverNegative ==
    (ParsedKey /\ pout.r.err = NIL) =>
        /\ pout.r.idx >= 0
        /\ \E m \in Positions(pin, "-") :
              LET text == SubSeq(pin, m + 1, Len(pin))
              IN  /\ HasNone(text, {"-", "#"})
                  /\ pout.r.idx = NumberOf(IF text[1] = "+" THEN Tail(text) ELSE text)

\* "#-1": the '-' is the separator, not a sign, and the index is 1.
C19_Witness ==
    /\ ParsedKey
    /\ pin = <<"#", "-", "1">>
    /\ pout.r = [did |-> <<>>, idx |-> 1, err |-> NIL]

(***************************************************************************)
(* Properties of two calls compared, under SpecPair.                       *)
(***************************************************************************)
\* The messages a call handed to VerifySig.
SigMessages(cs) ==
    LET sigs == SelectSeq(cs, LAMBDA c : c.fn = "VerifySig")
    IN  [i \in 1..Len(sigs) |-> sigs[i].data]

\* Both calls compared handed a message to VerifySig.
BothSigned ==
    /\ Validated
    /\ Len(SigMessages(calls)) = 1
    /\ Len(SigMessages(twin.calls)) = 1

\* The fields of a response the code puts into the message: the type as
\* sent, the nonce, the DID of the reference and the creation time.
SignedFields(r) ==
    <<r.Type, r.Nonce, ParsedRef(r).did, r.Proof.Created>>

\* C14 (as claimed): the message is determined by exactly the version, the
\* type, the server descriptor, the nonce, the DID and the creation time: two
\* responses that agree on them pass the same message and two that differ in
\* one of them pass different messages.
C14_VersionInMessage ==
    BothSigned =>
        (SigMessages(calls) = SigMessages(twin.calls))
            <=> (<<res.Ver>> \o SignedFields(res)
                     = <<twin.res.Ver>> \o SignedFields(twin.res))

\* C14 (amended): the message is determined by exactly the type as sent, the
\* server descriptor, the nonce, the DID of the reference and the creation
\* time; the version is not part of it.
C14_MessageDeterminedBySignedFields ==
    BothSigned =>
        (SigMessages(calls) = SigMessages(twin.calls))
            <=> (SignedFields(res) = SignedFields(twin.res))

\* Two responses with different proof values, for which VerifySig got the
\* same message.
C14_Witness ==
    /\ BothSigned
    /\ res.Proof.Value # twin.res.Proof.Value
    /\ SigMessages(calls) = SigMessages(twin.calls)

(***************************************************************************)
(* Properties of concurrent callers, under SpecConc.                       *)
(***************************************************************************)
\* The caller's ValidateClientResponse returned nil.
Accepted(p) == proc[p].pc = "done" /\ proc[p].err = NIL

\* The caller is past a successful nonce lookup.
HoldsNonce(p) ==
    \/ proc[p].pc \in {"build", "sig", "vp"}
    \/ proc[p].pc = "done" /\ proc[p].err \in {NIL} \cup LaterStepErrors

\* C16: of two callers inside ValidateClientResponse with responses that
\* carry the same nonce, under every interleaving of their steps, at most one
\* gets past the nonce lookup and so at most one is accepted; the
\* configuration and the registry are what they were at construction.
C16_AtMostOneAccepted ==
    /\ \A p \in Callers, q \in Callers :
          (p # q /\ proc[p].pc # "idle" /\ proc[q].pc # "idle"
           /\ proc[p].r.Nonce = proc[q].r.Nonce)
            => /\ ~(HoldsNonce(p) /\ HoldsNonce(q))
               /\ ~(Accepted(p) /\ Accepted(q))
    /\ conf = TestConf
    /\ didProcessors = (ChainOnt :> "ontProcessor") @@ (ChainEth :> "ethProcessor")

\* Both callers sent the same nonce; the second was accepted after verifying
\* a presentation and the first was refused at the lookup.
C16_Witness ==
    /\ proc[1].r.Nonce = proc[2].r.Nonce
    /\ proc[1].pc = "done" /\ proc[1].err = ERR_NONCE
    /\ Accepted(2) /\ Len(proc[2].r.VPs) = 1

====
